---- MODULE Spec2Model ----
(***************************************************************************)
(* Copy-on-write trie of src/primer/trie.cpp: Trie::Get, Trie::Put and     *)
(* Trie::Remove over a heap of nodes with identity.                        *)
(*                                                                         *)
(* A node is a heap cell; a pointer is the index of the cell (0 is         *)
(* nullptr).  A children_ map is a function from symbols to pointers in    *)
(* which 0 stands for "no entry".  Put and Remove are translated block by  *)
(* block into step operators over a frame of locals; Spec runs a whole     *)
(* call as one action, SpecSteps runs it one step at a time.               *)
(***************************************************************************)
EXTENDS Integers, Sequences, FiniteSets, TLC

VARIABLES heap, vals, versions, hist, frame

vars == <<heap, vals, versions, hist, frame>>

(***************************************************************************)
(* Bounds and input sets                                                   *)
(***************************************************************************)
\* number of Put/Remove calls in a behaviour of Spec
MaxOps == 3
\* number of Put/Remove calls in a behaviour of SpecSteps
MaxStepOps == 2

Chars == {"a", "b"}

\* keys the callers pass: the empty key, siblings at the root, a chain of
\* prefixes and two siblings at depth 3
Keys ==
  { <<>>, <<"a">>, <<"b">>, <<"a", "b">>, <<"a", "b", "a">>, <<"a", "b", "b">> }

Types == {"uint32_t", "string"}

\* the typed values the callers pass: two values of one type and a value of
\* another type
Payloads ==
  { [T |-> "uint32_t", value |-> 1], [T |-> "uint32_t", value |-> 2],
    [T |-> "string", value |-> 1] }

\* every position a node can have in a trie built from Keys: the prefixes
\* of the keys
Positions == UNION { {SubSeq(k, 1, n) : n \in 0..Len(k)} : k \in Keys }

nullptr == 0

(***************************************************************************)
(* Nodes                                                                   *)
(***************************************************************************)
EmptyMap == [c \in Chars |-> nullptr]

TrieNode(children) ==
  [children_ |-> children, is_value_node_ |-> FALSE, type_ |-> "TrieNode", value_ |-> nullptr]

TrieNodeWithValue(children, T, value_ptr) ==
  [children_ |-> children, is_value_node_ |-> TRUE, type_ |-> T, value_ |-> value_ptr]

\* a new object of the same dynamic class with the same children_ and the
\* same value_ pointer
Clone(node) ==
  [children_ |-> node.children_, is_value_node_ |-> node.is_value_node_,
   type_ |-> node.type_, value_ |-> node.value_]

\* std::map::insert: no effect when the key is already there
MapInsert(m, c, p) == IF m[c] # nullptr THEN m ELSE [m EXCEPT ![c] = p]

\* std::map::erase
MapErase(m, c) == [m EXCEPT ![c] = nullptr]

IsPrefix(p, k) == Len(p) <= Len(k) /\ \A i \in 1..Len(p) : p[i] = k[i]

(***************************************************************************)
(* Trie::Get                                                               *)
(***************************************************************************)
RECURSIVE Walk(_, _, _, _)
Walk(h, node, key, i) ==
  IF i > Len(key) THEN node
  ELSE IF h[node].children_[key[i]] # nullptr
       THEN Walk(h, h[node].children_[key[i]], key, i + 1)
       ELSE nullptr

\* the node at position key below root, nullptr when there is none
NodeAt(h, root, key) == IF root = nullptr THEN nullptr ELSE Walk(h, root, key, 1)

\* Get without the dynamic_cast: any value node answers, whatever its type
Get_NoTypeCheck(h, root, key, T) ==
  LET node == NodeAt(h, root, key) IN
  IF node = nullptr THEN nullptr
  ELSE IF h[node].is_value_node_ THEN h[node].value_ ELSE nullptr

\* the pointer Get<T> returns: the value holder, or nullptr
Get(h, root, key, T) ==
  LET node == NodeAt(h, root, key) IN
  IF node = nullptr THEN nullptr
  ELSE IF h[node].is_value_node_ /\ h[node].type_ = T
       THEN h[node].value_
       ELSE nullptr

\* what the caller reads through the pointer Get<T> returns
GetVal(h, v, root, key, T) ==
  LET p == Get(h, root, key, T) IN
  IF p = nullptr THEN [found |-> FALSE, val |-> 0] ELSE [found |-> TRUE, val |-> v[p]]

(***************************************************************************)
(* A call in progress: s.f holds the locals of the running Put or Remove,  *)
(* s.heap the nodes and s.vals the value holders (the objects behind       *)
(* std::shared_ptr<T>).  stack_vec grows at its end: its top is its last   *)
(* element.  it_key is an index into key, End(key) is key.end().  parent   *)
(* points at a unique_ptr: 0 is &new_root, i > 0 is &stack_vec[i].second.  *)
(***************************************************************************)
End(key) == Len(key) + 1

Top(stk) == stk[Len(stk)]

Pop(stk) == SubSeq(stk, 1, Len(stk) - 1)

Pair(c, p) == [first |-> c, second |-> p]

\* the id operator new gives the next node
NewId(s) == Len(s.heap) + 1

\* an uncaught std::out_of_range of map::at, or top()/pop() of an empty stack
Fault(s) == [s EXCEPT !.f.pc = "error"]

Deref(s, parent) == IF parent = 0 THEN s.f.new_root ELSE s.f.stack_vec[parent].second

(***************************************************************************)
(* Trie::Put                                                               *)
(***************************************************************************)
\* line 50: a fresh empty root
P50(s) ==
  [s EXCEPT !.heap = Append(@, TrieNode(EmptyMap)),
            !.f.new_root = NewId(s),
            !.f.pc = "P51"]

\* Put that works on the receiver's root instead of on a clone of it
P51_NoClone(s) ==
  IF s.f.root_ # nullptr
  THEN [s EXCEPT !.f.new_root = s.f.root_, !.f.pc = "P54"]
  ELSE [s EXCEPT !.f.pc = "P54"]

\* lines 51-53: the clone of the receiver's root replaces it
P51(s) ==
  IF s.f.root_ # nullptr
  THEN [s EXCEPT !.heap = Append(@, Clone(s.heap[s.f.root_])),
                 !.f.new_root = NewId(s),
                 !.f.pc = "P54"]
  ELSE [s EXCEPT !.f.pc = "P54"]

\* line 54: the value moves into its holder
P54(s) ==
  [s EXCEPT !.vals = Append(@, s.f.value),
            !.f.value_ptr = Len(s.vals) + 1,
            !.f.pc = "P55"]

\* lines 55-63: the empty key puts the value on the root
P55(s) ==
  IF s.f.key = <<>>
  THEN [s EXCEPT !.heap = Append(@, TrieNodeWithValue(s.heap[s.f.new_root].children_,
                                                       s.f.T, s.f.value_ptr)),
                 !.f.value_ptr = nullptr,
                 !.f.result = NewId(s),
                 !.f.pc = "done"]
  ELSE [s EXCEPT !.f.slot = nullptr,
                 !.f.stack_vec = <<>>,
                 !.f.parent = 0,
                 !.f.it_key = 1,
                 !.f.pc = "P65"]

\* lines 65-74: one iteration of the walk that clones the existing path
P65(s) ==
  IF s.f.it_key + 1 # End(s.f.key)
  THEN LET c == s.f.key[s.f.it_key]
           child == s.heap[Deref(s, s.f.parent)].children_[c]
       IN IF child # nullptr
          THEN [s EXCEPT !.heap = Append(@, Clone(s.heap[child])),
                         !.f.stack_vec = Append(@, Pair(c, NewId(s))),
                         !.f.parent = Len(s.f.stack_vec) + 1,
                         !.f.it_key = @ + 1]
          ELSE [s EXCEPT !.f.pc = "P77"]
  ELSE [s EXCEPT !.f.pc = "P77"]

\* lines 77-81: one fresh plain node for a symbol whose node is missing
P77(s) ==
  IF s.f.it_key + 1 # End(s.f.key)
  THEN [s EXCEPT !.heap = Append(@, TrieNode(EmptyMap)),
                 !.f.stack_vec = Append(@, Pair(s.f.key[s.f.it_key], NewId(s))),
                 !.f.it_key = @ + 1]
  ELSE [s EXCEPT !.f.pc = "P84"]

\* Put that copies the value into a second holder for the value node
P84_CopiesValue(s) ==
  [s EXCEPT !.vals = Append(@, s.vals[s.f.value_ptr]),
            !.heap = Append(@, TrieNodeWithValue(EmptyMap, s.f.T, Len(s.vals) + 1)),
            !.f.slot = NewId(s),
            !.f.key_char = s.f.key[s.f.it_key],
            !.f.pc = "P87"]

\* lines 84-86: the value node of the last symbol, with no children yet
P84(s) ==
  [s EXCEPT !.heap = Append(@, TrieNodeWithValue(EmptyMap, s.f.T, s.f.value_ptr)),
            !.f.value_ptr = nullptr,
            !.f.slot = NewId(s),
            !.f.key_char = s.f.key[s.f.it_key],
            !.f.pc = "P87"]

\* lines 87-103: one iteration of the loop that links slot below the top of
\* the stack and pops it
P87(s) ==
  IF s.f.stack_vec # <<>>
  THEN LET top == Top(s.f.stack_vec)
           tn == top.second
           c == s.f.key_char
           old == s.heap[tn].children_[c]
           found == old # nullptr
           inherit == found /\ s.f.it_key + 1 = End(s.f.key)
           h1 == IF inherit
                 THEN [s.heap EXCEPT ![s.f.slot].children_ = s.heap[old].children_]
                 ELSE s.heap
           h2 == IF found
                 THEN [h1 EXCEPT ![tn].children_[c] = s.f.slot]
                 ELSE [h1 EXCEPT ![tn].children_ = MapInsert(@, c, s.f.slot)]
       IN [s EXCEPT !.heap = h2,
                    !.f.it_key = IF inherit THEN @ - 1 ELSE IF found THEN @ ELSE 1,
                    !.f.key_char = top.first,
                    !.f.slot = tn,
                    !.f.stack_vec = Pop(@)]
  ELSE [s EXCEPT !.f.pc = "P104"]

\* Put that only inserts below the root and so never replaces an entry
P104_InsertOnly(s) ==
  [s EXCEPT !.heap[s.f.new_root].children_ = MapInsert(@, s.f.key_char, s.f.slot),
            !.f.slot = nullptr,
            !.f.pc = "P111"]

\* Put that also copies a sibling of the path below the new root
P104_CopiesSibling(s) ==
  LET c == s.f.key_char
      r == s.f.new_root
      sibs == {d \in Chars \ {c} : s.heap[r].children_[d] # nullptr}
      d == CHOOSE d \in sibs : TRUE
  IN IF sibs = {}
     THEN [s EXCEPT !.heap[r].children_[c] = s.f.slot,
                    !.f.slot = nullptr,
                    !.f.pc = "P111"]
     ELSE [s EXCEPT !.heap = [Append(@, Clone(s.heap[s.heap[r].children_[d]]))
                                EXCEPT ![r].children_[c] = s.f.slot,
                                       ![r].children_[d] = NewId(s)],
                    !.f.slot = nullptr,
                    !.f.pc = "P111"]

\* lines 104-109: slot becomes the child of the new root
P104(s) ==
  LET c == s.f.key_char
      r == s.f.new_root
  IN IF s.heap[r].children_[c] # nullptr
     THEN [s EXCEPT !.heap[r].children_[c] = s.f.slot,
                    !.f.slot = nullptr,
                    !.f.pc = "P111"]
     ELSE [s EXCEPT !.heap[r].children_ = MapInsert(@, c, s.f.slot),
                    !.f.slot = nullptr,
                    !.f.pc = "P111"]

\* line 111
P111(s) ==
  [s EXCEPT !.f.result = s.f.new_root, !.f.new_root = nullptr, !.f.pc = "done"]

PutStep(s) ==
  CASE s.f.pc = "P50" -> P50(s)
    [] s.f.pc = "P51" -> P51(s)
    [] s.f.pc = "P54" -> P54(s)
    [] s.f.pc = "P55" -> P55(s)
    [] s.f.pc = "P65" -> P65(s)
    [] s.f.pc = "P77" -> P77(s)
    [] s.f.pc = "P84" -> P84(s)
    [] s.f.pc = "P87" -> P87(s)
    [] s.f.pc = "P104" -> P104(s)
    [] s.f.pc = "P111" -> P111(s)

(***************************************************************************)
(* Trie::Remove                                                            *)
(***************************************************************************)
\* lines 118-120
R118(s) ==
  IF s.f.root_ = nullptr
  THEN [s EXCEPT !.f.result = nullptr, !.f.pc = "done"]
  ELSE [s EXCEPT !.f.pc = "R121"]

\* Remove that puts the receiver's root itself on the stack
R121_NoClone(s) ==
  [s EXCEPT !.f.new_root = nullptr,
            !.f.stack_vec = <<Pair("a", s.f.root_)>>,
            !.f.it_key = 1,
            !.f.pc = "R126"]

\* lines 121-125: the clone of the root goes on the stack under a dummy symbol
R121(s) ==
  [s EXCEPT !.heap = Append(@, Clone(s.heap[s.f.root_])),
            !.f.new_root = nullptr,
            !.f.stack_vec = <<Pair("a", NewId(s))>>,
            !.f.it_key = 1,
            !.f.pc = "R126"]

\* Remove that returns the clone it stopped at when the path is interrupted
R126_ReturnsTop(s) ==
  IF s.f.it_key # End(s.f.key) /\ s.f.key # <<>>
  THEN LET c == s.f.key[s.f.it_key]
           child == s.heap[Top(s.f.stack_vec).second].children_[c]
       IN IF child # nullptr
          THEN [s EXCEPT !.heap = Append(@, Clone(s.heap[child])),
                         !.f.stack_vec = Append(@, Pair(c, NewId(s))),
                         !.f.it_key = @ + 1]
          ELSE [s EXCEPT !.f.result = Top(s.f.stack_vec).second,
                         !.f.pc = "done"]
  ELSE [s EXCEPT !.f.pc = "R139"]

\* lines 126-136: one iteration of the walk that clones the path to the key;
\* an interrupted path returns a clone of the receiver's root
R126(s) ==
  IF s.f.it_key # End(s.f.key) /\ s.f.key # <<>>
  THEN IF s.f.stack_vec = <<>> THEN Fault(s)
       ELSE LET c == s.f.key[s.f.it_key]
                child == s.heap[Top(s.f.stack_vec).second].children_[c]
            IN IF child # nullptr
               THEN [s EXCEPT !.heap = Append(@, Clone(s.heap[child])),
                              !.f.stack_vec = Append(@, Pair(c, NewId(s))),
                              !.f.it_key = @ + 1]
               ELSE [s EXCEPT !.heap = Append(@, Clone(s.heap[s.f.root_])),
                              !.f.result = NewId(s),
                              !.f.pc = "done"]
  ELSE [s EXCEPT !.f.pc = "R139"]

\* lines 139-148 and 158-163: the node of the key is found
R139(s) ==
  IF s.f.key = <<>>
  THEN IF s.heap[s.f.root_].children_ = EmptyMap
       THEN [s EXCEPT !.f.result = nullptr, !.f.pc = "done"]
       ELSE [s EXCEPT !.heap = Append(@, TrieNode(s.heap[s.f.root_].children_)),
                      !.f.new_root = NewId(s),
                      !.f.pc = "R165"]
  ELSE IF s.f.stack_vec = <<>> THEN Fault(s)
  ELSE LET top == Top(s.f.stack_vec)
           rest == Pop(s.f.stack_vec)
       IN IF s.heap[top.second].is_value_node_
          THEN IF s.heap[top.second].children_ = EmptyMap
               THEN IF rest = <<>> THEN Fault(s)
                    ELSE [s EXCEPT !.heap[Top(rest).second].children_ = MapErase(@, top.first),
                                   !.f.char_key = top.first,
                                   !.f.stack_vec = rest,
                                   !.f.pc = "R149"]
               ELSE IF rest = <<>> THEN Fault(s)
                    ELSE IF s.heap[Top(rest).second].children_[top.first] = nullptr
                         THEN Fault(s)
                         ELSE [s EXCEPT !.heap =
                                          [Append(@, TrieNode(s.heap[top.second].children_))
                                             EXCEPT ![Top(rest).second].children_[top.first] = NewId(s)],
                                        !.f.char_key = top.first,
                                        !.f.stack_vec = rest,
                                        !.f.pc = "R165"]
          ELSE [s EXCEPT !.f.pc = "R165"]

\* Remove that deletes the node of the key and prunes no ancestor
R149_NoPrune(s) == [s EXCEPT !.f.pc = "R165"]

\* Remove whose pruning loop runs while the stack is not empty
R149_OffByOne(s) ==
  IF Len(s.f.stack_vec) > 0
  THEN LET top == Top(s.f.stack_vec)
           rest == Pop(s.f.stack_vec)
       IN IF s.heap[top.second].children_ = EmptyMap /\ ~s.heap[top.second].is_value_node_
          THEN IF rest = <<>> THEN Fault(s)
               ELSE [s EXCEPT !.heap[Top(rest).second].children_ = MapErase(@, top.first),
                              !.f.char_key = top.first,
                              !.f.stack_vec = rest]
          ELSE [s EXCEPT !.f.pc = "R165"]
  ELSE [s EXCEPT !.f.pc = "R165"]

\* Remove whose pruning loop deletes a childless ancestor that has a value
R149_PrunesValued(s) ==
  IF Len(s.f.stack_vec) > 1
  THEN LET top == Top(s.f.stack_vec)
           rest == Pop(s.f.stack_vec)
       IN IF s.heap[top.second].children_ = EmptyMap
          THEN [s EXCEPT !.heap[Top(rest).second].children_ = MapErase(@, top.first),
                         !.f.char_key = top.first,
                         !.f.stack_vec = rest]
          ELSE [s EXCEPT !.f.pc = "R165"]
  ELSE [s EXCEPT !.f.pc = "R165"]

\* lines 149-157: one iteration of the loop that prunes a dead ancestor
R149(s) ==
  IF Len(s.f.stack_vec) > 1
  THEN LET top == Top(s.f.stack_vec)
           rest == Pop(s.f.stack_vec)
       IN IF s.heap[top.second].children_ = EmptyMap /\ ~s.heap[top.second].is_value_node_
          THEN [s EXCEPT !.heap[Top(rest).second].children_ = MapErase(@, top.first),
                         !.f.char_key = top.first,
                         !.f.stack_vec = rest]
          ELSE [s EXCEPT !.f.pc = "R165"]
  ELSE [s EXCEPT !.f.pc = "R165"]

\* lines 165-167: the top of the stack is the node to link upwards
R165(s) ==
  IF s.f.stack_vec = <<>> THEN Fault(s)
  ELSE [s EXCEPT !.f.slot = Top(s.f.stack_vec).second,
                 !.f.key_char = Top(s.f.stack_vec).first,
                 !.f.stack_vec = Pop(@),
                 !.f.pc = "R168"]

\* lines 168-173: one iteration of the loop that relinks the cloned ancestors
R168(s) ==
  IF s.f.stack_vec # <<>>
  THEN LET top == Top(s.f.stack_vec)
       IN IF s.heap[top.second].children_[s.f.key_char] = nullptr
          THEN Fault(s)
          ELSE [s EXCEPT !.heap[top.second].children_[s.f.key_char] = s.f.slot,
                         !.f.key_char = top.first,
                         !.f.slot = top.second,
                         !.f.stack_vec = Pop(@)]
  ELSE [s EXCEPT !.f.pc = "R174"]

\* Remove that returns the root it is left with, dead or not
R174_KeepsRoot(s) ==
  [s EXCEPT !.f.new_root = nullptr, !.f.slot = nullptr,
            !.f.result = s.f.slot, !.f.pc = "done"]

\* lines 174-179: a root left with no value and no children is the empty trie
R174(s) ==
  LET r == s.f.slot
  IN IF ~s.heap[r].is_value_node_ /\ s.heap[r].children_ = EmptyMap
     THEN [s EXCEPT !.f.new_root = r, !.f.slot = nullptr,
                    !.f.result = nullptr, !.f.pc = "done"]
     ELSE [s EXCEPT !.f.new_root = nullptr, !.f.slot = nullptr,
                    !.f.result = r, !.f.pc = "done"]

RemoveStep(s) ==
  CASE s.f.pc = "R118" -> R118(s)
    [] s.f.pc = "R121" -> R121(s)
    [] s.f.pc = "R126" -> R126(s)
    [] s.f.pc = "R139" -> R139(s)
    [] s.f.pc = "R149" -> R149(s)
    [] s.f.pc = "R165" -> R165(s)
    [] s.f.pc = "R168" -> R168(s)
    [] s.f.pc = "R174" -> R174(s)

(***************************************************************************)
(* Calls                                                                   *)
(***************************************************************************)
Running(pc) == pc \notin {"idle", "done", "error"}

Step(s) == IF s.f.op = "Put" THEN PutStep(s) ELSE RemoveStep(s)

\* a call run to its return or to its fault
RECURSIVE Run(_)
Run(s) == IF Running(s.f.pc) THEN Run(Step(s)) ELSE s

Idle ==
  [pc |-> "idle", op |-> "none", root_ |-> nullptr, key |-> <<>>, T |-> "none", value |-> 0,
   new_root |-> nullptr, value_ptr |-> nullptr, slot |-> nullptr, stack_vec |-> <<>>,
   parent |-> 0, it_key |-> 1, key_char |-> "a", char_key |-> "a", result |-> nullptr,
   heap0 |-> 0]

\* the receiver of the next call: the handle obtained last
Current == versions[Len(versions)]

PutCall(key, T, value) ==
  [Idle EXCEPT !.pc = "P50", !.op = "Put", !.root_ = Current, !.key = key, !.T = T,
               !.value = value, !.heap0 = Len(heap)]

RemoveCall(key) ==
  [Idle EXCEPT !.pc = "R118", !.op = "Remove", !.root_ = Current, !.key = key,
               !.heap0 = Len(heap)]

\* what a finished call leaves behind: the new handle and the record of the call
Finish(s) ==
  /\ heap' = s.heap
  /\ vals' = s.vals
  /\ versions' = IF s.f.pc = "done" THEN Append(versions, s.f.result) ELSE versions
  /\ hist' = Append(hist, [op |-> s.f.op, key |-> s.f.key, T |-> s.f.T, value |-> s.f.value,
                           src |-> s.f.root_, res |-> s.f.result, heap0 |-> s.f.heap0,
                           ok |-> s.f.pc = "done"])
  /\ frame' = Idle

\* root.Put(key, value) and root.Remove(key) as functions of the memory m
\* (its heap and vals) they run in: the memory and the frame at the return
TriePut(m, root, key, T, value) ==
  Run([f |-> [Idle EXCEPT !.pc = "P50", !.op = "Put", !.root_ = root, !.key = key, !.T = T,
                          !.value = value, !.heap0 = Len(m.heap)],
       heap |-> m.heap, vals |-> m.vals])

TrieRemove(m, root, key) ==
  Run([f |-> [Idle EXCEPT !.pc = "R118", !.op = "Remove", !.root_ = root, !.key = key,
                          !.heap0 = Len(m.heap)],
       heap |-> m.heap, vals |-> m.vals])

Init ==
  /\ heap = <<>>
  /\ vals = <<>>
  /\ versions = <<nullptr>>
  /\ hist = <<>>
  /\ frame = Idle

\* a whole Put
Put(key, T, value) ==
  /\ frame.pc = "idle"
  /\ Len(hist) < MaxOps
  /\ Finish(Run([f |-> PutCall(key, T, value), heap |-> heap, vals |-> vals]))

\* a whole Remove
Remove(key) ==
  /\ frame.pc = "idle"
  /\ Len(hist) < MaxOps
  /\ Finish(Run([f |-> RemoveCall(key), heap |-> heap, vals |-> vals]))

Next ==
  \/ \E key \in Keys, v \in Payloads : Put(key, v.T, v.value)
  \/ \E key \in Keys : Remove(key)

Spec == Init /\ [][Next]_vars

(***************************************************************************)
(* The same calls one step at a time                                       *)
(***************************************************************************)
BeginPut(key, T, value) ==
  /\ frame.pc = "idle"
  /\ Len(hist) < MaxStepOps
  /\ frame' = PutCall(key, T, value)
  /\ UNCHANGED <<heap, vals, versions, hist>>

BeginRemove(key) ==
  /\ frame.pc = "idle"
  /\ Len(hist) < MaxStepOps
  /\ frame' = RemoveCall(key)
  /\ UNCHANGED <<heap, vals, versions, hist>>

WriterStep ==
  /\ Running(frame.pc)
  /\ LET s == Step([f |-> frame, heap |-> heap, vals |-> vals])
     IN /\ frame' = s.f
        /\ heap' = s.heap
        /\ vals' = s.vals
  /\ UNCHANGED <<versions, hist>>

Return ==
  /\ frame.pc \in {"done", "error"}
  /\ Finish([f |-> frame, heap |-> heap, vals |-> vals])

NextSteps ==
  \/ \E key \in Keys, v \in Payloads : BeginPut(key, v.T, v.value)
  \/ \E key \in Keys : BeginRemove(key)
  \/ WriterStep
  \/ Return

SpecSteps == Init /\ [][NextSteps]_vars

(***************************************************************************)
(* The calls of the scenario of the specification, in its order, one step  *)
(* at a time: T1 = T0.Put("a", _), T2 = T1.Put("ab", _), T3 = T2.Put("a",  *)
(* _), T4 = T3.Remove("ab"), T5 = T4.Remove("a"), with uint32_t values.    *)
(***************************************************************************)
ScenarioCalls ==
  << [op |-> "Put", key |-> <<"a">>], [op |-> "Put", key |-> <<"a", "b">>],
     [op |-> "Put", key |-> <<"a">>], [op |-> "Remove", key |-> <<"a", "b">>],
     [op |-> "Remove", key |-> <<"a">>] >>

ScenarioValues == {1, 2, 3}

ScenarioBegin ==
  /\ frame.pc = "idle"
  /\ Len(hist) < Len(ScenarioCalls)
  /\ \/ /\ ScenarioCalls[Len(hist) + 1].op = "Put"
        /\ \E value \in ScenarioValues :
             frame' = PutCall(ScenarioCalls[Len(hist) + 1].key, "uint32_t", value)
     \/ /\ ScenarioCalls[Len(hist) + 1].op = "Remove"
        /\ frame' = RemoveCall(ScenarioCalls[Len(hist) + 1].key)
  /\ UNCHANGED <<heap, vals, versions, hist>>

NextScenario ==
  \/ ScenarioBegin
  \/ WriterStep
  \/ Return

SpecScenario == Init /\ [][NextScenario]_vars

(***************************************************************************)
(* Properties                                                              *)
(***************************************************************************)
Last == hist[Len(hist)]

Absent == [found |-> FALSE, val |-> 0]

Found(v) == [found |-> TRUE, val |-> v]

\* two tries answer Get alike at key k2, whatever the type asked for
SameGet(r1, r2, k2) ==
  \A T \in Types : GetVal(heap, vals, r1, k2, T) = GetVal(heap, vals, r2, k2, T)

\* the trie holds a value at k: there is a node and it is a value node
HoldsValue(root, k) ==
  NodeAt(heap, root, k) # nullptr /\ heap[NodeAt(heap, root, k)].is_value_node_

HasChildren(root, k) ==
  NodeAt(heap, root, k) # nullptr /\ heap[NodeAt(heap, root, k)].children_ # EmptyMap

\* C1: Put never discards other keys: after t.Put(k, v), Get of every key
\* other than k (keys that extend k included) answers as it does on t, and a
\* node that already exists at k hands its children to the new value node.
C1_PutKeepsOtherKeys ==
  (hist # <<>> /\ Last.op = "Put" /\ Last.ok) =>
     /\ \A k2 \in Positions \ {Last.key} : SameGet(Last.src, Last.res, k2)
     /\ NodeAt(heap, Last.src, Last.key) # nullptr =>
          heap[NodeAt(heap, Last.res, Last.key)].children_
            = heap[NodeAt(heap, Last.src, Last.key)].children_

\* C2: deletion correctness: after t.Put(k, v).Remove(k), Get<T>(k) is absent
\* for every type T.
C2_PutRemoveAbsent ==
  (/\ Len(hist) >= 2
   /\ Last.op = "Remove" /\ Last.ok
   /\ hist[Len(hist) - 1].op = "Put" /\ hist[Len(hist) - 1].ok
   /\ hist[Len(hist) - 1].key = Last.key
   /\ hist[Len(hist) - 1].res = Last.src) =>
     \A T \in Types : Get(heap, Last.res, Last.key, T) = nullptr

\* C3: round trip: after t.Put(k, v) with v of type T, Get<T>(k) returns v.
C3_RoundTrip ==
  (hist # <<>> /\ Last.op = "Put" /\ Last.ok) =>
     GetVal(heap, vals, Last.res, Last.key, Last.T) = Found(Last.value)

\* a Put of a key that held a value of another type, below a key whose node
\* exists already
C3_Witness ==
  /\ hist # <<>> /\ Last.op = "Put" /\ Last.ok
  /\ Last.key # <<>>
  /\ \E T \in Types \ {Last.T} : Get(heap, Last.src, Last.key, T) # nullptr
  /\ GetVal(heap, vals, Last.res, Last.key, Last.T) = Found(Last.value)

\* C4: immutability of the receiver: no call changes a handle obtained
\* earlier, nor what Get returns on it for any key and type.
C4_ReceiverUnchanged ==
  [][\A i \in 1..Len(versions) :
       /\ versions'[i] = versions[i]
       /\ \A k2 \in Positions, T \in Types :
            GetVal(heap', vals', versions[i], k2, T) = GetVal(heap, vals, versions[i], k2, T)]_vars

\* three calls went by and the first version differs from the latest one at
\* a key both were asked to change
C4_Witness ==
  /\ Len(versions) = 4
  /\ \A i \in 1..Len(hist) : hist[i].ok
  /\ versions[2] # nullptr
  /\ \E k \in Keys : ~SameGet(versions[2], versions[4], k) /\ ~SameGet(versions[3], versions[4], k)

\* C5: dead-node invariant: no node reachable from the root of a trie that
\* Put and Remove produced has neither a value nor a child.
C5_NoDeadNode ==
  \A p \in Positions :
     LET n == NodeAt(heap, Current, p)
     IN n # nullptr => (heap[n].is_value_node_ \/ heap[n].children_ # EmptyMap)

\* a Remove pruned the chain below "a" and left the rest of the trie
C5_Witness ==
  /\ hist # <<>> /\ Last.op = "Remove" /\ Last.ok
  /\ Len(Last.key) = 3
  /\ HoldsValue(Last.src, Last.key)
  /\ NodeAt(heap, Last.res, <<"a">>) = nullptr
  /\ Last.res # nullptr

\* C6: Remove of a key that holds no value changes no answer of Get.
C6_RemoveAbsentNoOp ==
  (hist # <<>> /\ Last.op = "Remove" /\ Last.ok /\ ~HoldsValue(Last.src, Last.key)) =>
     \A k2 \in Positions : SameGet(Last.src, Last.res, k2)

\* a Remove whose key ends on a node without a value
C6_Witness ==
  /\ hist # <<>> /\ Last.op = "Remove" /\ Last.ok
  /\ Last.key # <<>>
  /\ NodeAt(heap, Last.src, Last.key) # nullptr
  /\ ~HoldsValue(Last.src, Last.key)
  /\ Last.res # nullptr

\* C7: Put and Remove never fail: no call ends in a fault (a map::at that
\* finds no entry, a top() or pop() of the empty stack), and Put returns a
\* trie that is not empty.
C7_NeverFail ==
  \A i \in 1..Len(hist) :
     /\ hist[i].ok
     /\ hist[i].op = "Put" => hist[i].res # nullptr

\* a Remove pruned every node of a chain of three, up to the root
C7_Witness ==
  /\ hist # <<>> /\ Last.op = "Remove" /\ Last.ok
  /\ Len(Last.key) = 3
  /\ Last.src # nullptr
  /\ Last.res = nullptr

\* the last Put of key k in the history, 0 when there is none
LastPutOf(k) ==
  LET S == {i \in 1..Len(hist) : hist[i].op = "Put" /\ hist[i].key = k}
  IN IF S = {} THEN 0 ELSE CHOOSE i \in S : \A j \in S : j <= i

\* C8: type-checked retrieval: a value stored at k with type T1 is returned
\* by Get<T1>(k), and Get<T2>(k) with another type returns absent.
C8_TypeChecked ==
  \A k \in Positions :
     HoldsValue(Current, k) =>
        /\ LastPutOf(k) # 0
        /\ \A T \in Types :
             GetVal(heap, vals, Current, k, T)
               = IF T = hist[LastPutOf(k)].T THEN Found(hist[LastPutOf(k)].value) ELSE Absent

\* a Put stored a string where a uint32_t was, with the same payload
C8_Witness ==
  /\ hist # <<>> /\ Last.op = "Put" /\ Last.ok /\ Last.T = "string"
  /\ GetVal(heap, vals, Last.src, Last.key, "uint32_t") = Found(Last.value)
  /\ Get(heap, Last.res, Last.key, "uint32_t") = nullptr
  /\ Get(heap, Last.res, Last.key, "string") # nullptr

\* C9: structural sharing: a node of the result that is not on the path from
\* the root to k is the very node the receiver has at that position, and the
\* nodes the call made are all on that path.
C9_StructuralSharing ==
  (hist # <<>> /\ Last.ok) =>
     \A p \in Positions :
        LET n == NodeAt(heap, Last.res, p)
        IN n # nullptr =>
             /\ ~IsPrefix(p, Last.key) => n = NodeAt(heap, Last.src, p)
             /\ n > Last.heap0 => IsPrefix(p, Last.key)

\* a call made a new root and left a subtree of depth two off its path shared
C9_Witness ==
  /\ hist # <<>> /\ Last.ok
  /\ Last.res # nullptr /\ Last.res > Last.heap0
  /\ \E p \in Positions :
       /\ ~IsPrefix(p, Last.key)
       /\ HasChildren(Last.res, p)
       /\ NodeAt(heap, Last.res, p) = NodeAt(heap, Last.src, p)

\* the nodes some handle reaches
Published ==
  {NodeAt(heap, versions[i], p) : i \in 1..Len(versions), p \in Positions} \ {nullptr}

\* C10: isolation at step granularity: a step of a running Put or Remove
\* writes only to nodes that the call allocated and that no handle reaches,
\* so Get on any handle answers the same before and after every step.
C10_WriterIsolation ==
  [][/\ Len(heap') >= Len(heap)
     /\ \A n \in 1..Len(heap) :
          heap'[n] # heap[n] => (n > frame.heap0 /\ n \notin Published)
     /\ \A p \in 1..Len(vals) : vals'[p] = vals[p]
     /\ \A i \in 1..Len(versions), k2 \in Positions, T \in Types :
          GetVal(heap', vals', versions[i], k2, T) = GetVal(heap, vals, versions[i], k2, T)]_vars

\* a writer in the middle of relinking its clones while a trie exists
C10_Witness ==
  /\ frame.pc \in {"P87", "R168", "R149"}
  /\ frame.root_ # nullptr
  /\ Len(frame.stack_vec) >= 1
  /\ Len(heap) > frame.heap0 + 1

\* T(i) of the scenario: the trie the i-th call returned, T(0) the empty trie
ScenarioT(i) == versions[i + 1]

ScenarioGet(i, key) == GetVal(heap, vals, ScenarioT(i), key, "uint32_t")

\* C11: the scenario: after T1 = T0.Put("a", 1), T2 = T1.Put("ab", 2) and
\* T3 = T2.Put("a", 3): T3.Get("a") is 3, T3.Get("ab") is 2 and T1.Get("a")
\* is 1; T4 = T3.Remove("ab") has no "ab" and has "a" at 3; T5 =
\* T4.Remove("a") is the empty trie.
C11_Scenario ==
  (/\ Len(hist) >= 3
   /\ \A i \in 1..Len(hist) : hist[i].ok
   /\ hist[1].value = 1 /\ hist[2].value = 2 /\ hist[3].value = 3) =>
     /\ ScenarioGet(3, <<"a">>) = Found(3)
     /\ ScenarioGet(3, <<"a", "b">>) = Found(2)
     /\ ScenarioGet(1, <<"a">>) = Found(1)
     /\ Len(hist) >= 4 =>
          /\ ScenarioGet(4, <<"a", "b">>) = Absent
          /\ ScenarioGet(4, <<"a">>) = Found(3)
     /\ Len(hist) >= 5 => ScenarioT(5) = nullptr

\* C12: empty-key removal: when the root carries a value, Remove("") is the
\* empty trie if the root has no children, and else a trie whose root is a
\* valueless node with the same children: Get("") is absent and Get of every
\* other key is unchanged.
C12_EmptyKeyRemoval ==
  (/\ hist # <<>> /\ Last.op = "Remove" /\ Last.ok
   /\ Last.key = <<>>
   /\ HoldsValue(Last.src, <<>>)) =>
     IF heap[Last.src].children_ = EmptyMap
     THEN Last.res = nullptr
     ELSE /\ Last.res # nullptr
          /\ ~heap[Last.res].is_value_node_
          /\ heap[Last.res].children_ = heap[Last.src].children_
          /\ \A T \in Types : Get(heap, Last.res, <<>>, T) = nullptr
          /\ \A k2 \in Positions \ {<<>>} : SameGet(Last.src, Last.res, k2)

\* the node at p has a child under a symbol other than c
HasOtherChild(root, p, c) ==
  NodeAt(heap, root, p) # nullptr
    /\ \E d \in Chars \ {c} : heap[NodeAt(heap, root, p)].children_[d] # nullptr

\* C13: Remove of a non-empty key that holds a value touches only that key:
\* Get of every other key is unchanged; a node at k with children is replaced
\* by a valueless node with the same children; pruning deletes no ancestor
\* that has a value or another child.
C13_RemoveTouchesOnlyKey ==
  (/\ hist # <<>> /\ Last.op = "Remove" /\ Last.ok
   /\ Last.key # <<>>
   /\ HoldsValue(Last.src, Last.key)) =>
     /\ \A k2 \in Positions \ {Last.key} : SameGet(Last.src, Last.res, k2)
     /\ HasChildren(Last.src, Last.key) =>
          /\ NodeAt(heap, Last.res, Last.key) # nullptr
          /\ ~heap[NodeAt(heap, Last.res, Last.key)].is_value_node_
          /\ heap[NodeAt(heap, Last.res, Last.key)].children_
               = heap[NodeAt(heap, Last.src, Last.key)].children_
     /\ \A n \in 0..(Len(Last.key) - 1) :
          LET p == SubSeq(Last.key, 1, n)
          IN (HoldsValue(Last.src, p) \/ HasOtherChild(Last.src, p, Last.key[n + 1])) =>
               NodeAt(heap, Last.res, p) # nullptr

\* a Remove of a leaf at depth 3 pruned its valueless parent and stopped at
\* an ancestor that has a value
C13_Witness ==
  /\ hist # <<>> /\ Last.op = "Remove" /\ Last.ok
  /\ Len(Last.key) = 3
  /\ HoldsValue(Last.src, Last.key)
  /\ HoldsValue(Last.src, <<"a">>)
  /\ ~HoldsValue(Last.src, <<"a", "b">>)
  /\ NodeAt(heap, Last.res, <<"a", "b">>) = nullptr
  /\ HoldsValue(Last.res, <<"a">>)

\* C14: a trie that Put and Remove produced is the empty trie (no root)
\* exactly when no key holds a value; removing the last key, at any depth,
\* gives the empty trie and not a bare root.
C14_EmptyIffNothingStored ==
  (Current = nullptr) <=> (\A p \in Positions : ~HoldsValue(Current, p))

\* the only key, two symbols long, was removed from a trie built by two
\* calls, and the result is the empty trie
C14_Witness ==
  /\ Len(hist) = 3 /\ Last.op = "Remove" /\ Last.ok
  /\ Len(Last.key) = 2
  /\ HoldsValue(Last.src, Last.key)
  /\ \A p \in Positions \ {Last.key} : ~HoldsValue(Last.src, p)
  /\ Current = nullptr

\* the number of Put calls among the first i calls: the holder the i-th
\* call made, when it is a Put
PutCount(i) == Cardinality({j \in 1..i : hist[j].op = "Put"})

\* the last Put of key k among the first i calls, 0 when there is none
LastPutBefore(k, i) ==
  LET S == {j \in 1..i : hist[j].op = "Put" /\ hist[j].key = k}
  IN IF S = {} THEN 0 ELSE CHOOSE j \in S : \A l \in S : l <= j

\* C15: single value instance: there are as many value holders as Put calls,
\* and a version that maps k to a value refers to the one holder that the
\* last Put of k before it made.
C15_SingleValueInstance ==
  (\A i \in 1..Len(hist) : hist[i].ok) =>
     /\ Len(vals) = PutCount(Len(hist))
     /\ \A i \in 1..Len(versions), p \in Positions :
          HoldsValue(versions[i], p) =>
             /\ LastPutBefore(p, i - 1) # 0
             /\ heap[NodeAt(heap, versions[i], p)].value_ = PutCount(LastPutBefore(p, i - 1))

\* two calls on other keys copied the node of the key of the first Put, and
\* the copy refers to the holder of that Put
C15_Witness ==
  /\ Len(hist) = 3 /\ \A i \in 1..3 : hist[i].ok
  /\ hist[1].op = "Put"
  /\ hist[2].key # hist[1].key /\ hist[3].key # hist[1].key
  /\ HoldsValue(Current, hist[1].key)
  /\ NodeAt(heap, Current, hist[1].key) # NodeAt(heap, versions[2], hist[1].key)
  /\ NodeAt(heap, Current, hist[1].key) # NodeAt(heap, versions[3], hist[1].key)
  /\ heap[NodeAt(heap, Current, hist[1].key)].value_ = 1

\* C16: Puts on distinct keys commute: t.Put(k1, v1).Put(k2, v2) and
\* t.Put(k2, v2).Put(k1, v1) answer Get alike for every key and type.
C16_PutsCommute ==
  (/\ Len(hist) >= 2
   /\ Last.op = "Put" /\ Last.ok
   /\ hist[Len(hist) - 1].op = "Put" /\ hist[Len(hist) - 1].ok
   /\ hist[Len(hist) - 1].key # Last.key) =>
     LET first == hist[Len(hist) - 1]
         a == TriePut([heap |-> heap, vals |-> vals], first.src, Last.key, Last.T, Last.value)
         b == TriePut(a, a.f.result, first.key, first.T, first.value)
     IN \A k \in Positions, T \in Types :
          GetVal(heap, vals, Last.res, k, T) = GetVal(b.heap, b.vals, b.f.result, k, T)

\* C17: Remove undoes Put of a new key: when t holds no value at k,
\* t.Put(k, v).Remove(k) answers Get as t does for every key and type, and
\* is the empty trie when t is empty.
C17_RemoveUndoesPut ==
  (/\ Len(hist) >= 2
   /\ Last.op = "Remove" /\ Last.ok
   /\ hist[Len(hist) - 1].op = "Put" /\ hist[Len(hist) - 1].ok
   /\ hist[Len(hist) - 1].key = Last.key
   /\ hist[Len(hist) - 1].res = Last.src
   /\ ~HoldsValue(hist[Len(hist) - 1].src, Last.key)) =>
     /\ \A k2 \in Positions : SameGet(hist[Len(hist) - 1].src, Last.res, k2)
     /\ hist[Len(hist) - 1].src = nullptr => Last.res = nullptr

====
